---- MODULE Spec2Model ----
(***************************************************************************)
(* A model of myelin/torch/module/lif.py: the LIF cell wrappers            *)
(* (LIFCell, LIFFeedForwardCell), the sequence unroller LIFLayer and the   *)
(* LIFConstantCurrentEncoder.                                              *)
(*                                                                         *)
(* The step functions of myelin/torch/functional/lif.py (lif_step,         *)
(* lif_feed_forward_step, lif_current_encoder) are imported by the module  *)
(* but are not part of the sources at hand; they are modelled from         *)
(* sections 4.1-4.3 of the specification.                                  *)
(*                                                                         *)
(* Numbers.  A tensor element is a floating point number.  It is modelled  *)
(* as an extended number: a finite value (a whole number), +Inf, -Inf or   *)
(* NaN, with the IEEE rules for the non-finite values (Inf - Inf = NaN,    *)
(* 0 * Inf = NaN, every comparison with NaN is false).  Finite values do   *)
(* not overflow in the model.  A time step dt is a number of 1/DtDen; the  *)
(* product dt * tau_inv * x is rounded to the nearest whole number, a tie  *)
(* to the even one, as the floating point unit rounds.                     *)
(***************************************************************************)
EXTENDS Integers, Sequences, FiniteSets, TLC

(***************************************************************************)
(* Bounds of the model.                                                    *)
(***************************************************************************)
\* the longest input sequence handed to LIFLayer.forward
MaxT == 2
\* the largest seq_length of a LIFConstantCurrentEncoder
MaxSeqLength == 2
\* the largest number of dimensions of an encoder input x
MaxRank == 3

\* dt is counted in units of 1/DtDen: the default dt = 0.001 is 1/1000
DtDen == 1000

(***************************************************************************)
(* Extended numbers.                                                       *)
(***************************************************************************)
Fin(n) == [k |-> "fin", n |-> n]
PosInf == [k |-> "inf", n |-> 1]
NegInf == [k |-> "inf", n |-> -1]
NaN == [k |-> "nan", n |-> 0]

IsFin(a) == a.k = "fin"

Sign(n) == IF n > 0 THEN 1 ELSE IF n < 0 THEN -1 ELSE 0

XNeg(a) == IF a.k = "nan" THEN NaN ELSE [k |-> a.k, n |-> -a.n]

XAdd(a, b) ==
    IF a.k = "nan" \/ b.k = "nan" THEN NaN
    ELSE IF a.k = "inf" /\ b.k = "inf" THEN (IF a.n = b.n THEN a ELSE NaN)
    ELSE IF a.k = "inf" THEN a
    ELSE IF b.k = "inf" THEN b
    ELSE Fin(a.n + b.n)

XSub(a, b) == XAdd(a, XNeg(b))

XMul(a, b) ==
    IF a.k = "nan" \/ b.k = "nan" THEN NaN
    ELSE IF a.k = "fin" /\ b.k = "fin" THEN Fin(a.n * b.n)
    ELSE IF Sign(a.n) * Sign(b.n) = 0 THEN NaN
    ELSE [k |-> "inf", n |-> Sign(a.n) * Sign(b.n)]

\* n / d (d > 0) rounded to the nearest whole number, a tie to the even one
RoundDiv(n, d) ==
    LET q == n \div d
        r == n % d
    IN  IF 2 * r < d THEN q
        ELSE IF 2 * r > d THEN q + 1
        ELSE IF q % 2 = 0 THEN q ELSE q + 1

\* dt * tau_inv * a, for a time step of dt/DtDen and an inverse time constant
XRate(dt, tau_inv, a) ==
    IF a.k = "nan" THEN NaN
    ELSE IF a.k = "fin" THEN Fin(RoundDiv(dt * tau_inv * a.n, DtDen))
    ELSE IF dt * tau_inv = 0 THEN NaN
    ELSE [k |-> "inf", n |-> Sign(dt * tau_inv) * a.n]

\* a >= b as the tensor engine compares: false when either side is NaN
XGe(a, b) ==
    /\ a.k # "nan"
    /\ b.k # "nan"
    /\ IF a.k = "inf" /\ b.k = "inf" THEN a.n >= b.n
       ELSE IF a.k = "inf" THEN a.n > 0
       ELSE IF b.k = "inf" THEN b.n < 0
       ELSE a.n >= b.n

(***************************************************************************)
(* Tensors: a shape and the elements in row-major order.                   *)
(***************************************************************************)
RECURSIVE Prod(_)
Prod(s) == IF s = <<>> THEN 1 ELSE Head(s) * Prod(Tail(s))

Tensor(shape, data) == [shape |-> shape, data |-> data]

\* torch.zeros(*shape)
Zeros(shape) == Tensor(shape, [j \in 1..Prod(shape) |-> Fin(0)])

Full(shape, a) == Tensor(shape, [j \in 1..Prod(shape) |-> a])

\* elementwise a + b, a - b, a * b of equally shaped tensors
TAdd(s, t) == Tensor(s.shape, [j \in 1..Len(s.data) |-> XAdd(s.data[j], t.data[j])])

TSub(s, t) == Tensor(s.shape, [j \in 1..Len(s.data) |-> XSub(s.data[j], t.data[j])])

TMul(s, t) == Tensor(s.shape, [j \in 1..Len(s.data) |-> XMul(s.data[j], t.data[j])])

\* scalar - t and scalar * t, the scalar broadcast
SSub(a, t) == Tensor(t.shape, [j \in 1..Len(t.data) |-> XSub(a, t.data[j])])

SMul(a, t) == Tensor(t.shape, [j \in 1..Len(t.data) |-> XMul(a, t.data[j])])

\* dt * tau_inv * t
TRate(dt, tau_inv, t) ==
    Tensor(t.shape, [j \in 1..Len(t.data) |-> XRate(dt, tau_inv, t.data[j])])

\* heaviside(t - th): 1 where t >= th, else 0
Heaviside(t, th) ==
    Tensor(t.shape,
           [j \in 1..Len(t.data) |-> IF XGe(XSub(t.data[j], th), Fin(0)) THEN Fin(1) ELSE Fin(0)])

RECURSIVE Dot(_, _, _, _, _)
\* sum over k of x[xo + k] * w[wo + k], k = 1..n, added left to right
Dot(x, xo, w, wo, n) ==
    IF n = 0 THEN Fin(0)
    ELSE XAdd(Dot(x, xo, w, wo, n - 1), XMul(x[xo + n], w[wo + n]))

\* torch.nn.functional.linear(x, w) = x @ w^T for x [batch, n], w [h, n]
Linear(x, w) ==
    LET b == x.shape[1]
        n == x.shape[2]
        h == w.shape[1]
    IN  Tensor(<<b, h>>,
               [j \in 1..(b * h) |->
                   Dot(x.data, ((j - 1) \div h) * n, w.data, ((j - 1) % h) * n, n)])

\* torch.stack of a list of equally shaped tensors
RECURSIVE Concat(_)
Concat(ts) == IF ts = <<>> THEN <<>> ELSE Head(ts).data \o Concat(Tail(ts))

Stack(ts) == Tensor(<<Len(ts)>> \o ts[1].shape, Concat(ts))

(***************************************************************************)
(* The step functions of functional/lif.py (specification 4.1 - 4.3).      *)
(* p is a LIFParameters record; dt the time step.                          *)
(***************************************************************************)
\* steps 4 and 5 of 4.1: the spike and the reset of the potential
Spike(v_decayed, p) == Heaviside(v_decayed, Fin(p.v_th))

Reset(z_new, v_decayed, p) ==
    TAdd(TMul(SSub(Fin(1), z_new), v_decayed), SMul(Fin(p.v_reset), z_new))

\* step 2: i + dt * tau_syn_inv * (-i + input_current)
CurrentUpdate(i, input_current, p, dt) ==
    TAdd(i, TRate(dt, p.tau_syn_inv, TSub(input_current, i)))

\* step 3: v + dt * tau_mem_inv * ((v_leak - v) + current)
PotentialUpdate(v, current, p, dt) ==
    TAdd(v, TRate(dt, p.tau_mem_inv, TAdd(SSub(Fin(p.v_leak), v), current)))

LIFState(z, v, i) == [z |-> z, v |-> v, i |-> i]

LIFFeedForwardState(v, i) == [v |-> v, i |-> i]

\* 4.1: returns <<z_new, LIFState(z_new, v_new, i_new)>>
lif_step(input, state, input_weights, recurrent_weights, p, dt) ==
    LET input_current == TAdd(Linear(input, input_weights),
                              Linear(state.z, recurrent_weights))
        i_new == CurrentUpdate(state.i, input_current, p, dt)
        v_decayed == PotentialUpdate(state.v, i_new, p, dt)
        z_new == Spike(v_decayed, p)
        v_new == Reset(z_new, v_decayed, p)
    IN  <<z_new, LIFState(z_new, v_new, i_new)>>

\* 4.2: returns <<z_new, LIFFeedForwardState(v_new, i_new)>>
lif_feed_forward_step(input, state, p, dt) ==
    LET i_new == CurrentUpdate(state.i, input, p, dt)
        v_decayed == PotentialUpdate(state.v, i_new, p, dt)
        z_new == Spike(v_decayed, p)
        v_new == Reset(z_new, v_decayed, p)
    IN  <<z_new, LIFFeedForwardState(v_new, i_new)>>

\* 4.3: returns <<z_new, v_new>>
lif_current_encoder(input_current, v, p, dt) ==
    LET v_decayed == PotentialUpdate(v, input_current, p, dt)
        z_new == Spike(v_decayed, p)
        v_new == Reset(z_new, v_decayed, p)
    IN  <<z_new, v_new>>

(***************************************************************************)
(* The modules of module/lif.py.                                           *)
(***************************************************************************)
VARIABLES
    mod,         \* the module under test, as constructed
    mod0,        \* history: mod right after construction
    pc,          \* "idle", "LIFLayer.forward", "LIFConstantCurrentEncoder.forward",
                 \* "returned" or "raised"
    call,        \* the call in progress or last finished: the method and its arguments
    lay,         \* the locals of LIFLayer.forward
    enc,         \* the locals of LIFConstantCurrentEncoder.forward
    ret,         \* what the last finished call returned or raised
    remembered   \* history: one earlier finished forward call and its result

vars == <<mod, mod0, pc, call, lay, enc, ret, remembered>>

None == [tag |-> "none"]
Value(v) == [tag |-> "value", val |-> v]
\* a returned state object: a named tuple, kept apart from the plain tuples
\* that forward returns
State(s) == [tag |-> "value", state |-> s]
Raise(e) == [tag |-> "error", err |-> e]

\* LIFCell.__init__; the weights are the outcome of torch.randn(...) / sqrt(...)
LIFCell(input_weights, recurrent_weights, hidden_size, p, dt) ==
    [kind |-> "LIFCell",
     input_weights |-> input_weights,
     recurrent_weights |-> recurrent_weights,
     hidden_size |-> hidden_size,
     p |-> p,
     dt |-> dt]

\* LIFLayer.__init__: self.cell = cell(*cell_args)
LIFLayer(cell) == [kind |-> "LIFLayer", cell |-> cell]

\* LIFFeedForwardCell.__init__
LIFFeedForwardCell(shape, p, dt) ==
    [kind |-> "LIFFeedForwardCell", shape |-> shape, p |-> p, dt |-> dt]

\* LIFConstantCurrentEncoder.__init__
LIFConstantCurrentEncoder(seq_length, p, dt) ==
    [kind |-> "LIFConstantCurrentEncoder", seq_length |-> seq_length, p |-> p, dt |-> dt]

\* LIFCell.initial_state(batch_size, device, dtype=torch.float); given is the set
\* of the optional-looking arguments the caller passes besides batch_size
LIFCell_initial_state(self, batch_size, given) ==
    IF "device" \notin given
    THEN Raise("TypeError")
    ELSE State(LIFState(Zeros(<<batch_size, self.hidden_size>>),
                        Zeros(<<batch_size, self.hidden_size>>),
                        Zeros(<<batch_size, self.hidden_size>>)))

\* LIFFeedForwardCell.initial_state(batch_size, device, dtype)
LIFFeedForwardCell_initial_state(self, batch_size, given) ==
    IF "device" \notin given \/ "dtype" \notin given
    THEN Raise("TypeError")
    ELSE State(LIFFeedForwardState(Zeros(<<batch_size>> \o self.shape),
                                   Zeros(<<batch_size>> \o self.shape)))

\* LIFCell.forward
LIFCell_forward(self, input, state) ==
    lif_step(input, state, self.input_weights, self.recurrent_weights, self.p, self.dt)

\* LIFFeedForwardCell.forward
LIFFeedForwardCell_forward(self, input, state) ==
    lif_feed_forward_step(input, state, self.p, self.dt)

\* a faulty forward: the input weights are scaled in place
LIFCell_after_forward_inplace(self, input, state) ==
    [self EXCEPT !.input_weights = TAdd(@, @)]

\* the attributes of a cell after its forward: forward assigns none of them
LIFCell_after_forward(self, input, state) == self

(***************************************************************************)
(* LIFLayer.forward.  Its locals: inputs, state, outputs, the loop index   *)
(* i (the next iteration, from 0), and calls, the record of the            *)
(* invocations of self.cell: the arguments passed and the pair returned.   *)
(***************************************************************************)
\* input.unbind(0): the tuple of the slices along the first dimension
Unbind0(t) ==
    LET n == Prod(Tail(t.shape))
    IN  [k \in 1..t.shape[1] |->
            Tensor(Tail(t.shape), SubSeq(t.data, (k - 1) * n + 1, k * n))]

\* inputs = input.unbind(0); outputs = []
LIFLayer_forward_entry(self, input, state) ==
    [inputs |-> Unbind0(input), state |-> state, outputs |-> <<>>, i |-> 0,
     calls |-> <<>>]

\* a faulty iteration: the inputs are taken from the last to the first
LIFLayer_forward_body_reversed(self, f) ==
    LET input == f.inputs[Len(f.inputs) - f.i]
        r == LIFCell_forward(self.cell, input, f.state)
    IN  [f EXCEPT !.state = r[2],
                  !.outputs = Append(@, r[1]),
                  !.i = @ + 1,
                  !.calls = Append(@, [input |-> input, state |-> f.state,
                                       out |-> r[1], next |-> r[2]])]

\* a faulty iteration: the state the cell returns is dropped (out, _ = ...)
LIFLayer_forward_body_unthreaded(self, f) ==
    LET r == LIFCell_forward(self.cell, f.inputs[f.i + 1], f.state)
    IN  [f EXCEPT !.outputs = Append(@, r[1]),
                  !.i = @ + 1,
                  !.calls = Append(@, [input |-> f.inputs[f.i + 1], state |-> f.state,
                                       out |-> r[1], next |-> r[2]])]

\* one iteration: out, state = self.cell(inputs[i], state); outputs += [out]
LIFLayer_forward_body(self, f) ==
    LET r == LIFCell_forward(self.cell, f.inputs[f.i + 1], f.state)
    IN  [f EXCEPT !.state = r[2],
                  !.outputs = Append(@, r[1]),
                  !.i = @ + 1,
                  !.calls = Append(@, [input |-> f.inputs[f.i + 1], state |-> f.state,
                                       out |-> r[1], next |-> r[2]])]

\* a faulty return: an empty list of outputs is stacked to an empty tensor
LIFLayer_forward_return_empty(f) ==
    IF f.outputs = <<>>
    THEN Value(<<Zeros(<<0>>), f.state>>)
    ELSE Value(<<Stack(f.outputs), f.state>>)

\* return torch.stack(outputs), state; torch.stack raises on an empty list
LIFLayer_forward_return(f) ==
    IF f.outputs = <<>>
    THEN Raise("RuntimeError")
    ELSE Value(<<Stack(f.outputs), f.state>>)

(***************************************************************************)
(* LIFConstantCurrentEncoder.forward.  Its locals: x, v, z, voltages,      *)
(* spikes, the loop index ts, and steps, the record of the calls of        *)
(* lif_current_encoder; raised names the exception of the iteration.       *)
(***************************************************************************)
\* t[ts, :, :] needs a tensor of at least three dimensions
CanIndex3(t) == Len(t.shape) >= 3

\* t[ts, :, :] = v, for v of the shape of the slice t[ts]
SetItem(t, ts, v) ==
    LET n == Prod(Tail(t.shape))
    IN  Tensor(t.shape,
               [j \in 1..Len(t.data) |->
                   IF ts * n < j /\ j <= (ts + 1) * n THEN v.data[j - ts * n]
                   ELSE t.data[j]])

\* a faulty entry: the potential starts from torch.ones(...)
LIFConstantCurrentEncoder_forward_entry_ones(self, x) ==
    [x |-> x,
     v |-> Full(x.shape, Fin(1)),
     z |-> Zeros(x.shape),
     voltages |-> Zeros(<<self.seq_length>> \o x.shape),
     spikes |-> Zeros(<<self.seq_length>> \o x.shape),
     ts |-> 0,
     steps |-> <<>>,
     raised |-> ""]

\* the four torch.zeros(...) before the loop
LIFConstantCurrentEncoder_forward_entry(self, x) ==
    [x |-> x,
     v |-> Zeros(x.shape),
     z |-> Zeros(x.shape),
     voltages |-> Zeros(<<self.seq_length>> \o x.shape),
     spikes |-> Zeros(<<self.seq_length>> \o x.shape),
     ts |-> 0,
     steps |-> <<>>,
     raised |-> ""]

\* a faulty iteration: voltages[ts] gets the potential the step started from
LIFConstantCurrentEncoder_forward_body_stale(self, f) ==
    LET r == lif_current_encoder(f.x, f.v, self.p, self.dt)
        g == [f EXCEPT !.z = r[1], !.v = r[2],
                       !.steps = Append(@, [input_current |-> f.x, v |-> f.v,
                                            z_old |-> f.z,
                                            z_new |-> r[1], v_new |-> r[2]])]
    IN  IF ~CanIndex3(f.voltages)
        THEN [g EXCEPT !.raised = "IndexError"]
        ELSE [g EXCEPT !.voltages = SetItem(f.voltages, f.ts, f.v),
                       !.spikes = SetItem(f.spikes, f.ts, r[1]),
                       !.ts = @ + 1]

\* a faulty iteration: the step is driven by the spikes z, not by x
LIFConstantCurrentEncoder_forward_body_spike_current(self, f) ==
    LET r == lif_current_encoder(f.z, f.v, self.p, self.dt)
        g == [f EXCEPT !.z = r[1], !.v = r[2],
                       !.steps = Append(@, [input_current |-> f.z, v |-> f.v,
                                            z_old |-> f.z,
                                            z_new |-> r[1], v_new |-> r[2]])]
    IN  IF ~CanIndex3(f.voltages)
        THEN [g EXCEPT !.raised = "IndexError"]
        ELSE [g EXCEPT !.voltages = SetItem(f.voltages, f.ts, r[2]),
                       !.spikes = SetItem(f.spikes, f.ts, r[1]),
                       !.ts = @ + 1]

\* one iteration: z, v = lif_current_encoder(...); voltages[ts, :, :] = v;
\* spikes[ts, :, :] = z
LIFConstantCurrentEncoder_forward_body(self, f) ==
    LET r == lif_current_encoder(f.x, f.v, self.p, self.dt)
        g == [f EXCEPT !.z = r[1], !.v = r[2],
                       !.steps = Append(@, [input_current |-> f.x, v |-> f.v,
                                            z_old |-> f.z,
                                            z_new |-> r[1], v_new |-> r[2]])]
    IN  IF ~CanIndex3(f.voltages)
        THEN [g EXCEPT !.raised = "IndexError"]
        ELSE [g EXCEPT !.voltages = SetItem(f.voltages, f.ts, r[2]),
                       !.spikes = SetItem(f.spikes, f.ts, r[1]),
                       !.ts = @ + 1]

\* return voltages, spikes
LIFConstantCurrentEncoder_forward_return(f) == Value(<<f.voltages, f.spikes>>)

(***************************************************************************)
(* The modules constructed and the arguments the caller passes.            *)
(***************************************************************************)
LIFParameters(tau_syn_inv, tau_mem_inv, v_leak, v_th, v_reset) ==
    [tau_syn_inv |-> tau_syn_inv, tau_mem_inv |-> tau_mem_inv,
     v_leak |-> v_leak, v_th |-> v_th, v_reset |-> v_reset]

ParamSet ==
    { LIFParameters(1000, 500, 0, 8, 0),
      LIFParameters(500, 500, -4, 8, -4),
      LIFParameters(1000, 1000, 2, 0, 0) }

\* dt = 0.001
DtSet == {1}

InputWeightSet ==
    { Tensor(<<2, 1>>, <<Fin(1), Fin(2)>>), Tensor(<<2, 1>>, <<Fin(1), Fin(-1)>>) }

RecurrentWeightSet == { Tensor(<<2, 2>>, <<Fin(0), Fin(-1), Fin(1), Fin(0)>>) }

Cells ==
    { LIFCell(iw, rw, iw.shape[1], p, dt) :
        iw \in InputWeightSet, rw \in RecurrentWeightSet, p \in ParamSet, dt \in DtSet }

FeedForwardCells == { LIFFeedForwardCell(<<2>>, p, dt) : p \in ParamSet, dt \in DtSet }

Encoders ==
    { LIFConstantCurrentEncoder(n, p, dt) : n \in 0..MaxSeqLength, p \in ParamSet, dt \in DtSet }

Modules == Cells \cup { LIFLayer(c) : c \in Cells } \cup FeedForwardCells \cup Encoders

BatchSizes == {1, 2}

\* every tensor of the given shape with elements of vals
TensorsOf(shape, vals) == { Tensor(shape, d) : d \in [1..Prod(shape) -> vals] }

\* the caller's states of the recurrent cell: the zero state of initial_state,
\* the resting state, and a state with a spike and a synaptic current
CellStates(cell) ==
    LET shape == <<1, cell.hidden_size>>
        first(a) == Tensor(shape, [j \in 1..Prod(shape) |-> IF j = 1 THEN a ELSE Fin(0)])
    IN  { LIFState(Zeros(shape), Zeros(shape), Zeros(shape)),
          LIFState(Zeros(shape), Full(shape, Fin(cell.p.v_leak)), Zeros(shape)),
          LIFState(first(Fin(1)), Zeros(shape), first(Fin(12))) }

CellInputs(cell) == TensorsOf(<<1, cell.input_weights.shape[2]>>, {Fin(0), Fin(12), PosInf})

LayerInputs(cell) ==
    UNION { TensorsOf(<<T, 1, cell.input_weights.shape[2]>>, {Fin(0), Fin(12)}) : T \in 0..MaxT }

FeedForwardStates(cell) ==
    LET shape == <<1>> \o cell.shape
    IN  { LIFFeedForwardState(Zeros(shape), Zeros(shape)),
          LIFFeedForwardState(Full(shape, Fin(cell.p.v_leak)), Zeros(shape)),
          LIFFeedForwardState(Zeros(shape), Full(shape, Fin(12))) }

FeedForwardInputs(cell) == TensorsOf(<<1>> \o cell.shape, {Fin(0), Fin(12), PosInf})

\* the shapes of an encoder input: 1 to MaxRank dimensions, at most two elements
EncoderShapes ==
    { sh \in UNION { [1..r -> {1, 2}] : r \in 1..MaxRank } : Prod(sh) <= 2 }

EncoderInputs ==
    UNION { TensorsOf(sh, {Fin(0), Fin(2), Fin(12), PosInf}) : sh \in EncoderShapes }

(***************************************************************************)
(* The state machine: one module, called by a single caller, one call at   *)
(* a time.                                                                 *)
(***************************************************************************)
IdleLay == [inputs |-> <<>>, state |-> None, outputs |-> <<>>, i |-> 0, calls |-> <<>>]

IdleEnc == LIFConstantCurrentEncoder_forward_entry([seq_length |-> 0], Zeros(<<0>>))

Init ==
    /\ mod \in Modules
    /\ mod0 = mod
    /\ pc = "idle"
    /\ call = [op |-> "none"]
    /\ lay = IdleLay
    /\ enc = IdleEnc
    /\ ret = None
    /\ remembered = None

Ready == pc \in {"idle", "returned", "raised"}

Finish(r) == IF r.tag = "value" THEN "returned" ELSE "raised"

\* the history may keep one finished forward call; between tells whether a
\* forward call with other arguments has finished since
Remember(c, r) ==
    IF remembered.tag = "none"
    THEN {remembered, [tag |-> "call", call |-> c, ret |-> r, between |-> FALSE]}
    ELSE {[remembered EXCEPT !.between = @ \/ (c # remembered.call)]}

\* lif.initial_state(batch_size, ...) on a LIFCell
CallCellInitialState ==
    /\ Ready
    /\ mod.kind = "LIFCell"
    /\ \E batch_size \in BatchSizes, given \in SUBSET {"device", "dtype"} :
          /\ call' = [op |-> "initial_state", batch_size |-> batch_size, given |-> given]
          /\ ret' = LIFCell_initial_state(mod, batch_size, given)
          /\ pc' = Finish(ret')
    /\ UNCHANGED <<mod, mod0, lay, enc, remembered>>

\* lif.initial_state(batch_size, ...) on a LIFFeedForwardCell
CallFeedForwardInitialState ==
    /\ Ready
    /\ mod.kind = "LIFFeedForwardCell"
    /\ \E batch_size \in BatchSizes, given \in SUBSET {"device", "dtype"} :
          /\ call' = [op |-> "initial_state", batch_size |-> batch_size, given |-> given]
          /\ ret' = LIFFeedForwardCell_initial_state(mod, batch_size, given)
          /\ pc' = Finish(ret')
    /\ UNCHANGED <<mod, mod0, lay, enc, remembered>>

\* lif(input, state) on a LIFCell
CallCellForward ==
    /\ Ready
    /\ mod.kind = "LIFCell"
    /\ \E input \in CellInputs(mod), state \in CellStates(mod) :
          /\ call' = [op |-> "forward", input |-> input, state |-> state]
          /\ ret' = Value(LIFCell_forward(mod, input, state))
          /\ mod' = LIFCell_after_forward(mod, input, state)
          /\ remembered' \in Remember(call', ret')
    /\ pc' = "returned"
    /\ UNCHANGED <<mod0, lay, enc>>

\* lif(input, state) on a LIFFeedForwardCell
CallFeedForwardForward ==
    /\ Ready
    /\ mod.kind = "LIFFeedForwardCell"
    /\ \E input \in FeedForwardInputs(mod), state \in FeedForwardStates(mod) :
          /\ call' = [op |-> "forward", input |-> input, state |-> state]
          /\ ret' = Value(LIFFeedForwardCell_forward(mod, input, state))
          /\ remembered' \in Remember(call', ret')
    /\ pc' = "returned"
    /\ UNCHANGED <<mod, mod0, lay, enc>>

\* layer(input, state): LIFLayer.forward is entered
LayerCall ==
    /\ Ready
    /\ mod.kind = "LIFLayer"
    /\ \E input \in LayerInputs(mod.cell), state \in CellStates(mod.cell) :
          /\ call' = [op |-> "forward", input |-> input, state |-> state]
          /\ lay' = LIFLayer_forward_entry(mod, input, state)
    /\ pc' = "LIFLayer.forward"
    /\ ret' = None
    /\ UNCHANGED <<mod, mod0, enc, remembered>>

\* one iteration of the loop of LIFLayer.forward
LayerIter ==
    /\ pc = "LIFLayer.forward"
    /\ lay.i < Len(lay.inputs)
    /\ lay' = LIFLayer_forward_body(mod, lay)
    /\ mod' = [mod EXCEPT !.cell = LIFCell_after_forward(@, lay.inputs[lay.i + 1], lay.state)]
    /\ UNCHANGED <<mod0, pc, call, enc, ret, remembered>>

\* the loop of LIFLayer.forward is over: the return statement
LayerReturn ==
    /\ pc = "LIFLayer.forward"
    /\ lay.i >= Len(lay.inputs)
    /\ ret' = LIFLayer_forward_return(lay)
    /\ pc' = Finish(ret')
    /\ remembered' \in (IF ret'.tag = "value" THEN Remember(call, ret') ELSE {remembered})
    /\ UNCHANGED <<mod, mod0, call, lay, enc>>

\* encoder(x): LIFConstantCurrentEncoder.forward is entered
EncoderCall ==
    /\ Ready
    /\ mod.kind = "LIFConstantCurrentEncoder"
    /\ \E x \in EncoderInputs :
          /\ call' = [op |-> "forward", x |-> x]
          /\ enc' = LIFConstantCurrentEncoder_forward_entry(mod, x)
    /\ pc' = "LIFConstantCurrentEncoder.forward"
    /\ ret' = None
    /\ UNCHANGED <<mod, mod0, lay, remembered>>

\* one iteration of the loop of LIFConstantCurrentEncoder.forward
EncoderIter ==
    /\ pc = "LIFConstantCurrentEncoder.forward"
    /\ enc.ts < mod.seq_length
    /\ enc' = LIFConstantCurrentEncoder_forward_body(mod, enc)
    /\ pc' = IF enc'.raised = "" THEN pc ELSE "raised"
    /\ ret' = IF enc'.raised = "" THEN ret ELSE Raise(enc'.raised)
    /\ UNCHANGED <<mod, mod0, call, lay, remembered>>

\* the loop of LIFConstantCurrentEncoder.forward is over: the return statement
EncoderReturn ==
    /\ pc = "LIFConstantCurrentEncoder.forward"
    /\ enc.ts >= mod.seq_length
    /\ ret' = LIFConstantCurrentEncoder_forward_return(enc)
    /\ pc' = "returned"
    /\ UNCHANGED <<mod, mod0, call, lay, enc, remembered>>

Next ==
    \/ CallCellInitialState
    \/ CallFeedForwardInitialState
    \/ CallCellForward
    \/ CallFeedForwardForward
    \/ LayerCall
    \/ LayerIter
    \/ LayerReturn
    \/ EncoderCall
    \/ EncoderIter
    \/ EncoderReturn

Spec == Init /\ [][Next]_vars

(***************************************************************************)
(* The properties.                                                         *)
(***************************************************************************)
Finished == pc \in {"returned", "raised"}

\* a LIFLayer.forward call is in progress or was the last call
InLayerForward == mod.kind = "LIFLayer" /\ call.op = "forward"

\* the number T of time steps of the input of the layer call
LayerT == call.input.shape[1]

\* C1: LIFLayer.forward on T >= 1 time steps invokes its cell once per step, in
\* the order 0, ..., T-1: the k-th invocation gets the k-th slice of the input,
\* the first one the caller's state, every later one the state the one before
\* returned; the k-th entry of the stacked output is the output the k-th
\* invocation returned and the final state the state the last one returned.
C1_SequentialThreading ==
    (InLayerForward /\ LayerT >= 1) =>
        LET ins == Unbind0(call.input)
        IN  /\ Len(lay.calls) = lay.i
            /\ lay.i <= LayerT
            /\ \A k \in 1..Len(lay.calls) :
                  /\ lay.calls[k].input = ins[k]
                  /\ lay.calls[k].state =
                        (IF k = 1 THEN call.state ELSE lay.calls[k - 1].next)
            /\ Finished =>
                  /\ pc = "returned"
                  /\ Len(lay.calls) = LayerT
                  /\ ret.val[1].shape[1] = LayerT
                  /\ \A k \in 1..LayerT : Unbind0(ret.val[1])[k] = lay.calls[k].out
                  /\ ret.val[2] = lay.calls[LayerT].next

\* a finished layer call of two different steps, the first of which changed the state
C1_Witness ==
    /\ InLayerForward
    /\ pc = "returned"
    /\ LayerT = 2
    /\ lay.calls[1].input # lay.calls[2].input
    /\ lay.calls[1].next # call.state
    /\ lay.calls[1].out # lay.calls[2].out

RECURSIVE ManualRun(_, _, _, _)
\* calling cell by hand on ins[1], ..., ins[k], threading the state from s0:
\* the pairs <<output, state>> the k calls return
ManualRun(cell, ins, s0, k) ==
    IF k = 0 THEN <<>>
    ELSE CHOOSE run \in
             { Append(before,
                      LIFCell_forward(cell, ins[k], IF k = 1 THEN s0 ELSE before[k - 1][2])) :
                   before \in {ManualRun(cell, ins, s0, k - 1)} } : TRUE

\* the layer returned what T calls of its cell by hand give
ReturnedManual ==
    /\ pc = "returned"
    /\ ret.val[1].shape[1] = LayerT
    /\ \A manual \in {ManualRun(mod.cell, Unbind0(call.input), call.state, LayerT)} :
          /\ ret.val[1] = Stack([k \in 1..LayerT |-> manual[k][1]])
          /\ ret.val[2] = (IF LayerT = 0 THEN call.state ELSE manual[LayerT][2])

\* C2, as amended: for every input sequence of T >= 1 steps and every initial
\* state, LIFLayer.forward returns the per-step outputs and the final state of
\* T calls of the owned cell by hand, in order, threading the state.
C2_UnrollingEquivalence ==
    (InLayerForward /\ Finished /\ LayerT >= 1) => ReturnedManual

\* C2, as stated: the same for every T, the empty sequence included.
C2_Original == (InLayerForward /\ Finished) => ReturnedManual

\* a layer call of two steps that returned, its final state not the initial one
C2_Witness ==
    /\ InLayerForward
    /\ pc = "returned"
    /\ LayerT = 2
    /\ ret.val[2] # call.state
    /\ ret.val[2] # lay.calls[1].next

\* C10: for an input of T = 0 time steps LIFLayer.forward never invokes the
\* cell and does not return: stacking the empty list raises; the pair is
\* returned only for T >= 1.
C10_EmptySequenceRaises ==
    InLayerForward =>
        /\ LayerT = 0 =>
              /\ lay.calls = <<>>
              /\ pc # "returned"
              /\ pc = "LIFLayer.forward" =>
                    (lay.i >= Len(lay.inputs) /\ LIFLayer_forward_return(lay).tag = "error")
              /\ pc = "raised" => ret = Raise("RuntimeError")
        /\ pc = "returned" => (LayerT >= 1 /\ ret.tag = "value")

\* a layer call on the empty sequence that ended in the error
C10_Witness ==
    /\ InLayerForward
    /\ LayerT = 0
    /\ pc = "raised"
    /\ ret = Raise("RuntimeError")

\* a LIFConstantCurrentEncoder.forward call is in progress or was the last call
InEncoderForward == mod.kind = "LIFConstantCurrentEncoder" /\ call.op = "forward"

\* C3: LIFConstantCurrentEncoder.forward with seq_length = N on an input x of
\* any shape S, a 1-dimensional x included, completes without error and
\* returns voltages and spikes of shape [N, *S].
C3_TraceShape ==
    (InEncoderForward /\ Finished) =>
        /\ pc = "returned"
        /\ ret.val[1].shape = <<mod.seq_length>> \o call.x.shape
        /\ ret.val[2].shape = <<mod.seq_length>> \o call.x.shape
        /\ Len(ret.val[1].data) = mod.seq_length * Len(call.x.data)
        /\ Len(ret.val[2].data) = mod.seq_length * Len(call.x.data)

\* C8: as in the docstring examples, initial_state(batch_size) with the batch
\* size as the only argument succeeds on a LIFCell and on a LIFFeedForwardCell
\* and returns the zero-filled state.
C8_DocstringInitialState ==
    (call.op = "initial_state" /\ call.given = {} /\ Finished) =>
        /\ ret.tag = "value"
        /\ mod.kind = "LIFCell" =>
              LET z == Zeros(<<call.batch_size, mod.hidden_size>>)
              IN  ret.state = LIFState(z, z, z)
        /\ mod.kind = "LIFFeedForwardCell" =>
              LET z == Zeros(<<call.batch_size>> \o mod.shape)
              IN  ret.state = LIFFeedForwardState(z, z)

RECURSIVE EncoderRun(_, _, _)
\* k steps of the current encoder on x, from potential 0, each fed the
\* potential of the one before: the pairs <<z, v>> the k steps return
EncoderRun(self, x, k) ==
    IF k = 0 THEN <<>>
    ELSE CHOOSE run \in
             { Append(before,
                      lif_current_encoder(x, IF k = 1 THEN Zeros(x.shape) ELSE before[k - 1][2],
                                          self.p, self.dt)) :
                   before \in {EncoderRun(self, x, k - 1)} } : TRUE

\* the steps of the encoder call and the traces it returned are those of
\* seq_length steps on x from potential 0, each fed the potential of the one before
EncoderTraceFaithful ==
    /\ mod = mod0
    /\ Len(enc.steps) = mod.seq_length
    /\ \A k \in 1..mod.seq_length :
          /\ enc.steps[k].input_current = call.x
          /\ enc.steps[k].v =
                (IF k = 1 THEN Zeros(call.x.shape) ELSE enc.steps[k - 1].v_new)
    /\ ret.val[1].shape = <<mod.seq_length>> \o call.x.shape
    /\ ret.val[2].shape = <<mod.seq_length>> \o call.x.shape
    /\ ret.val[1].data = Concat([k \in 1..mod.seq_length |-> enc.steps[k].v_new])
    /\ ret.val[2].data = Concat([k \in 1..mod.seq_length |-> enc.steps[k].z_new])
    /\ \A run \in {EncoderRun(mod0, call.x, mod0.seq_length)} :
          /\ ret.val[1].data = Concat([k \in 1..mod.seq_length |-> run[k][2]])
          /\ ret.val[2].data = Concat([k \in 1..mod.seq_length |-> run[k][1]])

\* C9: every call of LIFConstantCurrentEncoder.forward starts from potential
\* 0, drives each of the seq_length steps with the same x, feeds step ts the
\* potential step ts-1 returned, and records in voltages[ts] and spikes[ts]
\* what step ts returned; so equal x give equal traces.
C9_EncoderTrace ==
    (InEncoderForward /\ Finished) => (pc = "returned" /\ EncoderTraceFaithful)

\* at every position that spiked, the potential is v_reset (whatever came before)
ResetAlways(z_new, v_new, p) ==
    \A j \in 1..Len(z_new.data) :
        z_new.data[j] = Fin(1) => v_new.data[j] = Fin(p.v_reset)

\* at every position that spiked from a finite pre-reset potential, the
\* potential is v_reset
ResetFinite(z_new, v_decayed, v_new, p) ==
    \A j \in 1..Len(z_new.data) :
        (z_new.data[j] = Fin(1) /\ IsFin(v_decayed.data[j])) =>
            v_new.data[j] = Fin(p.v_reset)

\* every step seen so far: the direct cell calls, the steps of the layer and
\* the state it returns, the steps of the encoder and the traces it returns;
\* strict tells whether a non-finite pre-reset potential is covered too
ResetEverywhere(strict) ==
    LET ok(z_new, v_decayed, v_new, p) ==
            IF strict THEN ResetAlways(z_new, v_new, p)
            ELSE ResetFinite(z_new, v_decayed, v_new, p)
    IN  /\ (mod.kind = "LIFCell" /\ call.op = "forward" /\ pc = "returned") =>
              ok(ret.val[1],
                 PotentialUpdate(call.state.v, ret.val[2].i, mod.p, mod.dt),
                 ret.val[2].v, mod.p)
        /\ (mod.kind = "LIFFeedForwardCell" /\ call.op = "forward" /\ pc = "returned") =>
              ok(ret.val[1],
                 PotentialUpdate(call.state.v, ret.val[2].i, mod.p, mod.dt),
                 ret.val[2].v, mod.p)
        /\ InLayerForward =>
              /\ \A k \in 1..Len(lay.calls) :
                    LET c == lay.calls[k]
                        v_decayed == PotentialUpdate(c.state.v, c.next.i, mod.cell.p, mod.cell.dt)
                    IN  /\ ok(c.out, v_decayed, c.next.v, mod.cell.p)
                        /\ ok(c.next.z, v_decayed, c.next.v, mod.cell.p)
              /\ (pc = "returned" /\ lay.calls # <<>>) =>
                    LET c == lay.calls[Len(lay.calls)]
                    IN  ok(ret.val[2].z,
                           PotentialUpdate(c.state.v, c.next.i, mod.cell.p, mod.cell.dt),
                           ret.val[2].v, mod.cell.p)
        /\ InEncoderForward =>
              /\ \A k \in 1..Len(enc.steps) :
                    LET c == enc.steps[k]
                    IN  ok(c.z_new, PotentialUpdate(c.v, c.input_current, mod.p, mod.dt),
                           c.v_new, mod.p)
              /\ pc = "returned" =>
                    \A k \in 1..mod.seq_length :
                        ok(Unbind0(ret.val[2])[k],
                           PotentialUpdate(enc.steps[k].v, call.x, mod.p, mod.dt),
                           Unbind0(ret.val[1])[k], mod.p)

\* C4, as amended: in every step of the LIF dynamics, wherever the emitted
\* spike is 1 and the pre-reset potential is finite, the emitted potential is
\* v_reset; so it is in every state the layer threads and at every position of
\* a returned encoder trace with spike 1.
C4_ResetCorrectness == ResetEverywhere(FALSE)

\* C4, as stated: the same whatever the pre-reset potential was.
C4_Original == ResetEverywhere(TRUE)

\* an encoder returned a trace with a spike at a position whose finite
\* pre-reset potential was not v_reset
C4_Witness ==
    /\ InEncoderForward
    /\ pc = "returned"
    /\ \E k \in 1..mod.seq_length :
          \E j \in 1..Len(call.x.data) :
              LET v_decayed == PotentialUpdate(enc.steps[k].v, call.x, mod.p, mod.dt)
              IN  /\ Unbind0(ret.val[2])[k].data[j] = Fin(1)
                  /\ IsFin(v_decayed.data[j])
                  /\ v_decayed.data[j] # Fin(mod.p.v_reset)
                  /\ Unbind0(ret.val[1])[k].data[j] = Fin(mod.p.v_reset)

\* t is zero everywhere
IsZero(t) == \A j \in 1..Len(t.data) : t.data[j] = Fin(0)

\* t is a everywhere
IsFull(t, a) == \A j \in 1..Len(t.data) : t.data[j] = a

\* the state is the resting state of p: no spike, potential v_leak, no current
AtRest(state, p) == IsZero(state.z) /\ IsFull(state.v, Fin(p.v_leak)) /\ IsZero(state.i)

Resting(p) == p.v_leak < p.v_th

\* From rest and under zero input the potential stays at v_leak and no spike
\* is emitted, in every step seen so far; for all parameters if any, else only
\* for those with v_leak < v_th.
RestingStable(any) ==
    LET ok(p) == any \/ Resting(p)
    IN
    /\ (mod.kind = "LIFCell" /\ call.op = "forward" /\ pc = "returned" /\ ok(mod.p)
          /\ IsZero(call.input) /\ AtRest(call.state, mod.p)) =>
              (IsZero(ret.val[1]) /\ IsFull(ret.val[2].v, Fin(mod.p.v_leak)))
    /\ (mod.kind = "LIFFeedForwardCell" /\ call.op = "forward" /\ pc = "returned" /\ ok(mod.p)
          /\ IsZero(call.input) /\ IsFull(call.state.v, Fin(mod.p.v_leak))
          /\ IsZero(call.state.i)) =>
              (IsZero(ret.val[1]) /\ IsFull(ret.val[2].v, Fin(mod.p.v_leak)))
    /\ (InLayerForward /\ ok(mod.cell.p) /\ IsZero(call.input)
          /\ AtRest(call.state, mod.cell.p)) =>
              /\ \A k \in 1..Len(lay.calls) :
                    /\ IsZero(lay.calls[k].out)
                    /\ IsFull(lay.calls[k].next.v, Fin(mod.cell.p.v_leak))
              /\ pc = "returned" =>
                    (IsZero(ret.val[1]) /\ IsFull(ret.val[2].v, Fin(mod.cell.p.v_leak)))
    \* the encoder starts from potential 0: that is v_leak when v_leak = 0
    /\ (InEncoderForward /\ ok(mod.p) /\ IsZero(call.x) /\ mod.p.v_leak = 0) =>
              /\ \A k \in 1..Len(enc.steps) :
                    /\ IsZero(enc.steps[k].z_new)
                    /\ IsFull(enc.steps[k].v_new, Fin(mod.p.v_leak))
              /\ pc = "returned" =>
                    (IsZero(ret.val[2]) /\ IsFull(ret.val[1], Fin(mod.p.v_leak)))

\* C5, as amended: with v_leak < v_th, zero input at every step and a state
\* that starts with potential v_leak, current 0 and no spike, the potential is
\* still v_leak and no spike has been emitted after any number of steps of the
\* cell, the layer or the encoder.
C5_RestingStable == RestingStable(FALSE)

\* C5, as stated: the same with no condition on the parameters.
C5_Original == RestingStable(TRUE)

\* a layer went through two steps at rest, at a potential v_leak that is not 0
C5_Witness ==
    /\ InLayerForward
    /\ pc = "returned"
    /\ LayerT = 2
    /\ IsZero(call.input)
    /\ AtRest(call.state, mod.cell.p)
    /\ Resting(mod.cell.p)
    /\ mod.cell.p.v_leak # 0
    /\ IsFull(ret.val[2].v, Fin(mod.cell.p.v_leak))

\* v_reset <= v_leak < v_th
Ordered(p) == p.v_reset <= p.v_leak /\ p.v_leak < p.v_th

\* the potential did not fall at any position driven by a positive (finite)
\* input current where the step came from no spike; conditioned tells
\* whether the step must emit no spike itself and start at or below
\* v_leak + current
ChargingStep(positive, current, v_old, z_old, z_new, v_new, p, conditioned) ==
    \A j \in 1..Len(v_old.data) :
        ( /\ IsFin(positive.data[j])
          /\ positive.data[j].n > 0
          /\ Ordered(p)
          /\ z_old.data[j] = Fin(0)
          /\ conditioned =>
                /\ z_new.data[j] = Fin(0)
                /\ XGe(XAdd(Fin(p.v_leak), current.data[j]), v_old.data[j]) )
        => XGe(v_new.data[j], v_old.data[j])

\* the inputs of the layer call are the same tensor at every step
ConstantInput == \A k \in 1..Len(lay.inputs) : lay.inputs[k] = lay.inputs[1]

\* a tensor of the shape of t that is 1 everywhere if the constant layer
\* input is positive everywhere, else 0
PositiveInputFlag(t) ==
    Full(t.shape,
         IF ConstantInput /\ \A j \in 1..Len(lay.inputs[1].data) :
                 IsFin(lay.inputs[1].data[j]) /\ lay.inputs[1].data[j].n > 0
         THEN Fin(1) ELSE Fin(0))

Charging(conditioned) ==
    /\ InEncoderForward =>
          \A k \in 1..Len(enc.steps) :
              LET c == enc.steps[k]
              IN  ChargingStep(call.x, call.x, c.v, c.z_old, c.z_new, c.v_new, mod.p,
                               conditioned)
    /\ (InLayerForward /\ conditioned) =>
          \A k \in 1..Len(lay.calls) :
              LET c == lay.calls[k]
              IN  ChargingStep(PositiveInputFlag(c.state.v), c.next.i, c.state.v, c.state.z,
                               c.next.z, c.next.v, mod.cell.p, conditioned)

\* C6, as amended: with a constant positive input current I, positive dt and
\* tau_mem_inv and v_reset <= v_leak < v_th, every encoder step that comes from
\* z_old = 0, emits no spike itself and starts from v_old <= v_leak + I has
\* v_new >= v_old; so has every cell step of a layer under constant positive
\* input, with the updated synaptic current i_new in the place of I.
C6_MonotonicCharging == Charging(TRUE)

\* C6, as stated: every encoder step that comes from z_old = 0 has v_new >= v_old.
C6_Original == Charging(FALSE)

\* an encoder step under the conditions of C6 that raised the potential
C6_Witness ==
    /\ InEncoderForward
    /\ Ordered(mod.p)
    /\ \E k \in 1..Len(enc.steps) :
          \E j \in 1..Len(call.x.data) :
              LET c == enc.steps[k]
              IN  /\ IsFin(call.x.data[j])
                  /\ call.x.data[j].n > 0
                  /\ c.z_old.data[j] = Fin(0)
                  /\ c.z_new.data[j] = Fin(0)
                  /\ XGe(XAdd(Fin(mod.p.v_leak), call.x.data[j]), c.v.data[j])
                  /\ c.v.data[j] # Fin(0)
                  /\ c.v_new.data[j] # c.v.data[j]
                  /\ XGe(c.v_new.data[j], c.v.data[j])

\* C7: forward of a cell or a layer is deterministic and keeps no hidden
\* state: a call with the arguments of an earlier call returns what the
\* earlier one returned, whatever calls were made in between, and forward
\* leaves the attributes of the module (weights, p, dt, hidden_size) as
\* constructed.
C7_Deterministic ==
    /\ mod = mod0
    /\ (mod.kind \in {"LIFCell", "LIFFeedForwardCell", "LIFLayer"}
          /\ remembered.tag = "call" /\ call.op = "forward" /\ pc = "returned"
          /\ call = remembered.call) =>
              ret = remembered.ret

\* a layer call repeated after a call with other arguments
C7_Witness ==
    /\ mod.kind = "LIFLayer"
    /\ remembered.tag = "call"
    /\ remembered.between
    /\ call.op = "forward"
    /\ pc = "returned"
    /\ call = remembered.call
    /\ LayerT = 2
    /\ ret = remembered.ret

====
